---- MODULE Spec2Model ----
(***************************************************************************)
(* Model of the Aptive -> BOM hierarchy processors.                        *)
(*                                                                         *)
(* The input dataframe df is a sequence of rows; python index i is         *)
(* df[i+1].  A spreadsheet cell is a sequence of at most one value: <<>>   *)
(* is a blank (NaN) cell, <<v>> a cell holding v.  The worksheet is a      *)
(* function from <<row, column>> to the value written there; its domain    *)
(* is the set of cells written so far.  The quantity written to column 15  *)
(* is a number or the empty string; it is kept in cell form (<<>> is "").  *)
(* Items are numbered 1..Len(items) in extraction order and a children     *)
(* list is a sequence of item numbers (python keeps object references).    *)
(***************************************************************************)
EXTENDS Integers, Sequences, FiniteSets, TLC

\* ---------------------------------------------------------------- bounds
MaxRows  == 6    \* data rows after the header row
MaxLevel == 5    \* largest level value in a level cell
NonPos   == 1    \* how many non-positive level values (0, -1, ...) occur
MaxJump  == 2    \* a level exceeds the preceding record's level by at most this
MaxCellRows == 2 \* data rows of an input with blank attributes or other level cells
MaxTextLen  == 4 \* characters of a text in the level column
MaxChildren == 1000 \* children of one parent

\* ------------------------------------------------------------- constants
StartRow   == 9     \* current_row = 9
ColMaterial  == 5
ColItem      == 12
ColComponent == 14
ColQuantity  == 15
ColUnit      == 16
FirstItemNumber == 10
ItemNumberStep  == 10
ItemWidth       == 4
LevelStartRow   == 2
\* configurable_processor: DEFAULT_CONFIG["settings"]["start_row"]
ConfigStartRow  == 2

VARIABLES df, pc, items, hierarchy, hierarchy_map, processed_groups, item_number,
          worksheet, current_row, level_data

vars == <<df, pc, items, hierarchy, hierarchy_map, processed_groups, item_number,
          worksheet, current_row, level_data>>

\* ------------------------------------------------------------ conversions
DigitChars == <<"0", "1", "2", "3", "4", "5", "6", "7", "8", "9">>

RECURSIVE IntToStr(_)
\* str(n) for an integer n
IntToStr(n) ==
    IF n < 0 THEN "-" \o IntToStr(0 - n)
    ELSE IF n < 10 THEN DigitChars[n + 1]
    ELSE IntToStr(n \div 10) \o DigitChars[(n % 10) + 1]

RECURSIVE ZeroPad(_, _)
ZeroPad(s, w) == IF Len(s) >= w THEN s ELSE ZeroPad("0" \o s, w)

\* f"{item_number:04d}": zero-padded to a minimum width of four
Fmt04d(n) == ZeroPad(IntToStr(n), ItemWidth)

\* str(x).upper() on the unit texts of the model
Upper(s) == CASE s = "pc" -> "PC"
              [] s = "m"  -> "M"
              [] OTHER    -> s

\* ------------------------------------------------------------- dataframe
isna(c) == c = <<>>
Iloc(d, i) == d[i + 1]

Levels == (1 - NonPos)..MaxLevel

MkRow(i, lv) == [level |-> lv, art |-> <<i>>, unit |-> <<"pc">>, qty |-> <<i>>]

RECURSIVE LastLevel(_)
\* level of the last non-blank data row of d, 0 when there is none
LastLevel(d) ==
    IF Len(d) <= 1 THEN 0
    ELSE IF isna(d[Len(d)].level) THEN LastLevel(SubSeq(d, 1, Len(d) - 1))
    ELSE d[Len(d)].level[1]

Max(a, b) == IF a >= b THEN a ELSE b

NextCells(d) ==
    {<<>>} \cup {<<l>> : l \in {x \in Levels : x <= Max(LastLevel(d), 0) + MaxJump}}

HeaderRow == MkRow(0, <<1>>)

\* the example of test_sequential_logic: levels 1, 2, 3, 4, 3, 4, 4
ExampleLevels == <<1, 2, 3, 4, 3, 4, 4>>
ExampleDf ==
    [i \in 1..(Len(ExampleLevels) + 1) |->
        IF i = 1 THEN HeaderRow ELSE MkRow(i - 1, <<ExampleLevels[i - 1]>>)]

\* ----------------------------------------------------------- text cells
\* A cell is <<>> (blank, NaN), <<v>> (a number, or the text of a unit) or
\* <<"text", t>> (a text in the level column, t its characters).
TextCell(t) == <<"text", t>>
IsText(c) == Len(c) = 2

IsDigit(ch) == \E k \in DOMAIN DigitChars : DigitChars[k] = ch
DigitValue(ch) == (CHOOSE k \in DOMAIN DigitChars : DigitChars[k] = ch) - 1

RECURSIVE LStrip(_)
LStrip(t) == IF t # <<>> /\ t[1] = " " THEN LStrip(Tail(t)) ELSE t
RECURSIVE RStrip(_)
RStrip(t) ==
    IF t # <<>> /\ t[Len(t)] = " " THEN RStrip(SubSeq(t, 1, Len(t) - 1)) ELSE t
\* str.strip()
Strip(t) == RStrip(LStrip(t))

RECURSIVE DigitsValue(_)
\* int(s) for a run of decimal digits s
DigitsValue(t) ==
    IF t = <<>> THEN 0
    ELSE DigitsValue(SubSeq(t, 1, Len(t) - 1)) * 10 + DigitValue(t[Len(t)])

\* int(s) of a text succeeds when s, stripped, is a run of digits (signs and
\* underscores are not among the characters of the model)
IntParsable(t) ==
    Strip(t) # <<>> /\ \A k \in DOMAIN Strip(t) : IsDigit(Strip(t)[k])
PyInt(t) == DigitsValue(Strip(t))

\* faulty variant of TakeDigits: only the first digit of the run is taken
TakeOneDigit(t) ==
    IF t # <<>> /\ IsDigit(t[1]) THEN <<t[1]>> ELSE <<>>

RECURSIVE TakeDigits(_)
TakeDigits(t) ==
    IF t # <<>> /\ IsDigit(t[1]) THEN <<t[1]>> \o TakeDigits(Tail(t)) ELSE <<>>

RECURSIVE FirstDigitRun(_)
\* re.findall(r'\d+', s)[0]; <<>> when findall returns no match
FirstDigitRun(t) ==
    IF t = <<>> THEN <<>>
    ELSE IF IsDigit(t[1]) THEN TakeDigits(t)
    ELSE FirstDigitRun(Tail(t))

RECURSIVE IntToChars(_)
IntToChars(n) ==
    IF n < 0 THEN <<"-">> \o IntToChars(0 - n)
    ELSE IF n < 10 THEN <<DigitChars[n + 1]>>
    ELSE IntToChars(n \div 10) \o <<DigitChars[(n % 10) + 1]>>

\* pd.read_excel: a column of numbers with a blank cell is read as floats,
\* a column without blank cells, or with text cells, keeps its integers
IsFloatCol(d, f) ==
    /\ \E i \in DOMAIN d : isna(d[i][f])
    /\ \A i \in DOMAIN d : ~IsText(d[i][f])

\* the characters of str(cell) for a non-blank cell
PyStrChars(c, float) ==
    IF IsText(c) THEN c[2]
    ELSE IntToChars(c[1]) \o (IF float THEN <<".", "0">> ELSE <<>>)

RECURSIVE Join(_)
Join(t) == IF t = <<>> THEN "" ELSE t[1] \o Join(Tail(t))

\* ------------------------------------------- build_hierarchy_structure
\* int(row.iloc[0])
LevelOf(row) == IF IsText(row.level) THEN PyInt(row.level[2]) ELSE row.level[1]

\* int(df.iloc[i, 0]) raises ValueError on a text that is not a number
Raises(d) ==
    \E i \in 1..(Len(d) - 1) :
        IsText(Iloc(d, i).level) /\ ~IntParsable(Iloc(d, i).level[2])
\* str(int(row.iloc[1])) if not pd.isna(row.iloc[1]) else ""
ArtNrOf(row) == IF ~isna(row.art) THEN IntToStr(row.art[1]) ELSE ""
\* str(row.iloc[3]).upper() if not pd.isna(row.iloc[3]) else ""
UnitOf(row) == IF ~isna(row.unit) THEN Upper(row.unit[1]) ELSE ""
\* row.iloc[4] if not pd.isna(row.iloc[4]) else ""
QuantityOf(row) == row.qty

NewItem(row) ==
    [level    |-> LevelOf(row),
     art_nr   |-> ArtNrOf(row),
     unit     |-> UnitOf(row),
     quantity |-> QuantityOf(row),
     children |-> <<>>]

RECURSIVE ExtractItemsWithArtNr(_, _)
\* faulty variant of ExtractItems: a row without identifier is skipped
ExtractItemsWithArtNr(d, i) ==
    IF i >= Len(d) THEN <<>>
    ELSE IF isna(Iloc(d, i).level) \/ isna(Iloc(d, i).art)
         THEN ExtractItemsWithArtNr(d, i + 1)
    ELSE <<NewItem(Iloc(d, i))>> \o ExtractItemsWithArtNr(d, i + 1)

RECURSIVE ExtractItems(_, _)
ExtractItems(d, i) ==
    IF i >= Len(d) THEN <<>>
    ELSE IF isna(Iloc(d, i).level) THEN ExtractItems(d, i + 1)
    ELSE <<NewItem(Iloc(d, i))>> \o ExtractItems(d, i + 1)

RECURSIVE ScanChildrenNoBreak(_, _, _)
\* faulty variant of ScanChildren: the scan does not stop at a record of the same
\* or a higher level
ScanChildrenNoBreak(its, current_level, j) ==
    IF j > Len(its) THEN <<>>
    ELSE IF its[j].level = current_level + 1
         THEN <<j>> \o ScanChildrenNoBreak(its, current_level, j + 1)
    ELSE ScanChildrenNoBreak(its, current_level, j + 1)

RECURSIVE ScanChildrenAnyDeeper(_, _, _)
\* faulty variant of ScanChildren: every deeper record is taken as a child
ScanChildrenAnyDeeper(its, current_level, j) ==
    IF j > Len(its) THEN <<>>
    ELSE IF its[j].level > current_level
         THEN <<j>> \o ScanChildrenAnyDeeper(its, current_level, j + 1)
    ELSE <<>>

RECURSIVE ScanChildren(_, _, _)
ScanChildren(its, current_level, j) ==
    IF j > Len(its) THEN <<>>
    ELSE IF its[j].level = current_level + 1
         THEN <<j>> \o ScanChildren(its, current_level, j + 1)
    ELSE IF its[j].level <= current_level THEN <<>>
    ELSE ScanChildren(its, current_level, j + 1)

LinkChildren(its) ==
    [i \in 1..Len(its) |->
        [its[i] EXCEPT !.children = ScanChildren(its, its[i].level, i + 1)]]

RECURSIVE RootsFromReversed(_, _)
\* faulty variant of RootsFrom: the roots are collected in reverse order
RootsFromReversed(its, i) ==
    IF i > Len(its) THEN <<>>
    ELSE RootsFromReversed(its, i + 1) \o (IF its[i].level = 1 THEN <<i>> ELSE <<>>)

RECURSIVE RootsFromShallowest(_, _)
\* faulty variant of RootsFrom: without a level-1 record the level-2 records
\* are returned as roots
RootsFromShallowest(its, i) ==
    IF i > Len(its) THEN <<>>
    ELSE (IF its[i].level = 1
             \/ (its[i].level = 2 /\ \A k \in DOMAIN its : its[k].level # 1)
          THEN <<i>> ELSE <<>>) \o RootsFromShallowest(its, i + 1)

RECURSIVE RootsFrom(_, _)
RootsFrom(its, i) ==
    IF i > Len(its) THEN <<>>
    ELSE (IF its[i].level = 1 THEN <<i>> ELSE <<>>) \o RootsFrom(its, i + 1)

\* ------------------------------------------------------------ worksheet
WriteCell(st, col, v) ==
    [st EXCEPT !.ws = (<<st.row, col>> :> v) @@ st.ws]

\* faulty variant of NextRow: a blank row is left after every written row
NextRowGap(st) == [st EXCEPT !.row = st.row + 2]

NextRow(st) == [st EXCEPT !.row = st.row + 1]

\* faulty variant of WriteMaterial: the Material row carries the current item
\* number in column L
WriteMaterialNumbered(st, art_nr) ==
    NextRow(WriteCell(WriteCell(WriteCell(WriteCell(WriteCell(st,
        ColMaterial, art_nr), ColItem, Fmt04d(st.item_number)), ColComponent, ""),
        ColQuantity, <<>>), ColUnit, ""))

\* a Material row of sequential_processor (column L written empty)
WriteMaterial(st, art_nr) ==
    NextRow(WriteCell(WriteCell(WriteCell(WriteCell(WriteCell(st,
        ColMaterial, art_nr), ColItem, ""), ColComponent, ""),
        ColQuantity, <<>>), ColUnit, ""))

\* faulty variant of WriteComponent: item_number is not incremented
WriteComponentNoStep(st, parent_art, child) ==
    NextRow(WriteCell(WriteCell(WriteCell(WriteCell(WriteCell(st,
        ColMaterial, parent_art), ColItem, Fmt04d(st.item_number)),
        ColComponent, child.art_nr), ColQuantity, child.quantity),
        ColUnit, child.unit))

\* a Component row of sequential_processor, numbered from st.item_number
WriteComponent(st, parent_art, child) ==
    LET s == NextRow(WriteCell(WriteCell(WriteCell(WriteCell(WriteCell(st,
                 ColMaterial, parent_art), ColItem, Fmt04d(st.item_number)),
                 ColComponent, child.art_nr), ColQuantity, child.quantity),
                 ColUnit, child.unit))
    IN [s EXCEPT !.item_number = s.item_number + ItemNumberStep]

\* faulty variant of ResetItemNumber: the counter continues from the previous Material
ResetItemNumberKeep(st) == st

ResetItemNumber(st) == [st EXCEPT !.item_number = FirstItemNumber]

RECURSIVE WriteComponents(_, _, _, _, _)
\* for child in kids[k..]: write the Component row
WriteComponents(its, parent_art, kids, k, st) ==
    IF k > Len(kids) THEN st
    ELSE WriteComponents(its, parent_art, kids, k + 1,
                         WriteComponent(st, parent_art, its[kids[k]]))

\* -------------------------------------------------- write_deeper_levels
RECURSIVE write_deeper_levels(_, _, _)
RECURSIVE DeeperEachChild(_, _, _, _)

DeeperEachChild(its, kids, k, st) ==
    IF k > Len(kids) THEN st
    ELSE DeeperEachChild(its, kids, k + 1, write_deeper_levels(its, kids[k], st))

\* item_number is a local of the call: the caller's counter is untouched
write_deeper_levels(its, p, st) ==
    IF its[p].children = <<>> THEN st
    ELSE LET s1 == WriteMaterial(st, its[p].art_nr)
             s2 == WriteComponents(its, its[p].art_nr, its[p].children, 1,
                                   ResetItemNumber(s1))
             s3 == DeeperEachChild(its, its[p].children, 1, s2)
         IN [s3 EXCEPT !.item_number = st.item_number]

\* ---------------------------------------------- write_hierarchy_ordered
RECURSIVE Level4Loop(_, _, _, _, _)
\* lines 211-222: each level-4 Component row is followed by its subtree
Level4Loop(its, parent_art, kids, k, st) ==
    IF k > Len(kids) THEN st
    ELSE LET s1 == WriteComponent(st, parent_art, its[kids[k]])
         IN Level4Loop(its, parent_art, kids, k + 1,
                       write_deeper_levels(its, kids[k], s1))

RECURSIVE Level3Loop(_, _, _, _)
\* lines 196-222
Level3Loop(its, kids, k, st) ==
    IF k > Len(kids) THEN st
    ELSE LET l3 == its[kids[k]] IN
         IF l3.children # <<>>
         THEN Level3Loop(its, kids, k + 1,
                  Level4Loop(its, l3.art_nr, l3.children, 1,
                      ResetItemNumber(WriteMaterial(st, l3.art_nr))))
         ELSE Level3Loop(its, kids, k + 1, st)

RECURSIVE Level2LoopAlways(_, _, _, _)
\* faulty variant of Level2Loop: the Material row is written without testing
\* level2_item['children']
Level2LoopAlways(its, kids, k, st) ==
    IF k > Len(kids) THEN st
    ELSE LET l2 == its[kids[k]]
             s1 == WriteMaterial(st, l2.art_nr)
             s2 == WriteComponents(its, l2.art_nr, l2.children, 1,
                                   ResetItemNumber(s1))
         IN Level2LoopAlways(its, kids, k + 1, Level3Loop(its, l2.children, 1, s2))

RECURSIVE Level2Loop(_, _, _, _)
\* lines 170-222
Level2Loop(its, kids, k, st) ==
    IF k > Len(kids) THEN st
    ELSE LET l2 == its[kids[k]] IN
         IF l2.children # <<>>
         THEN LET s1 == WriteMaterial(st, l2.art_nr)
                  s2 == WriteComponents(its, l2.art_nr, l2.children, 1,
                                        ResetItemNumber(s1))
              IN Level2Loop(its, kids, k + 1, Level3Loop(its, l2.children, 1, s2))
         ELSE Level2Loop(its, kids, k + 1, st)

RECURSIVE Level1LoopSkipChildless(_, _, _, _)
\* faulty variant of Level1Loop: a level-1 item without children is passed over
Level1LoopSkipChildless(its, roots, k, st) ==
    IF k > Len(roots) THEN st
    ELSE LET l1 == its[roots[k]]
             s1 == WriteMaterial(st, l1.art_nr)
             s2 == WriteComponents(its, l1.art_nr, l1.children, 1,
                                   ResetItemNumber(s1))
         IN IF l1.children = <<>>
            THEN Level1LoopSkipChildless(its, roots, k + 1, st)
            ELSE Level1LoopSkipChildless(its, roots, k + 1,
                                         Level2Loop(its, l1.children, 1, s2))

RECURSIVE Level1Loop(_, _, _, _)
\* lines 145-222
Level1Loop(its, roots, k, st) ==
    IF k > Len(roots) THEN st
    ELSE LET l1 == its[roots[k]]
             s1 == WriteMaterial(st, l1.art_nr)
             s2 == WriteComponents(its, l1.art_nr, l1.children, 1,
                                   ResetItemNumber(s1))
         IN Level1Loop(its, roots, k + 1, Level2Loop(its, l1.children, 1, s2))

\* faulty variant of write_hierarchy_ordered: the first row is written one row
\* above start_row
write_hierarchy_ordered_row_above(its, roots, ws, start_row) ==
    Level1Loop(its, roots, 1,
               [ws |-> ws, row |-> start_row - 1, item_number |-> FirstItemNumber])

write_hierarchy_ordered(its, roots, ws, start_row) ==
    Level1Loop(its, roots, 1,
               [ws |-> ws, row |-> start_row, item_number |-> FirstItemNumber])

\* ===================================================== other processors
\* Material and Component rows of the processors that leave column L alone
WriteMaterialRow(st, art_nr) ==
    NextRow(WriteCell(WriteCell(WriteCell(WriteCell(st,
        ColMaterial, art_nr), ColComponent, ""), ColQuantity, <<>>), ColUnit, ""))

WriteComponentRow(st, parent_art, child_art, quantity, unit) ==
    NextRow(WriteCell(WriteCell(WriteCell(WriteCell(st,
        ColMaterial, parent_art), ColComponent, child_art),
        ColQuantity, quantity), ColUnit, unit))

InRange(d, i) == i < Len(d) /\ ~isna(Iloc(d, i).level)

\* --------------------------------- optimized_processor: build_hierarchy_map
\* keys of the items dict: the dataframe indices of the non-blank rows
ItemKeys(d) == {i \in 1..(Len(d) - 1) : ~isna(Iloc(d, i).level)}

RECURSIVE KeysFrom(_, _)
\* item_indices = list(items.keys())
KeysFrom(d, i) ==
    IF i >= Len(d) THEN <<>>
    ELSE (IF isna(Iloc(d, i).level) THEN <<>> ELSE <<i>>) \o KeysFrom(d, i + 1)

RECURSIVE MapScanChildren(_, _, _, _)
MapScanChildren(d, idxs, current_level, j) ==
    IF j > Len(idxs) THEN <<>>
    ELSE LET child_level == LevelOf(Iloc(d, idxs[j])) IN
         IF child_level = current_level + 1
         THEN <<idxs[j]>> \o MapScanChildren(d, idxs, current_level, j + 1)
         ELSE IF child_level <= current_level THEN <<>>
         ELSE MapScanChildren(d, idxs, current_level, j + 1)

MapItems(d) ==
    LET idxs == KeysFrom(d, 1) IN
    [idx \in ItemKeys(d) |->
        LET pos == CHOOSE n \in DOMAIN idxs : idxs[n] = idx IN
        [NewItem(Iloc(d, idx)) EXCEPT
            !.children = MapScanChildren(d, idxs, LevelOf(Iloc(d, idx)), pos + 1)]]

RECURSIVE Level1Keys(_, _)
\* the keys of level1_hierarchies, in insertion order
Level1Keys(d, i) ==
    IF i >= Len(d) THEN <<>>
    ELSE (IF ~isna(Iloc(d, i).level) /\ LevelOf(Iloc(d, i)) = 1 THEN <<i>> ELSE <<>>)
         \o Level1Keys(d, i + 1)

\* ------------------------------ optimized_processor: write_hierarchy_to_bom
\* complete_children of build_complete_hierarchy is the unfolding of the
\* children lists, so the tree is walked through the items map
RECURSIVE MapWriteComponents(_, _, _, _, _)
MapWriteComponents(its, art_nr, kids, k, st) ==
    IF k > Len(kids) THEN st
    ELSE MapWriteComponents(its, art_nr, kids, k + 1,
             WriteComponentRow(st, art_nr, its[kids[k]].art_nr,
                               its[kids[k]].quantity, its[kids[k]].unit))

RECURSIVE write_hierarchy_to_bom(_, _, _)
RECURSIVE MapEachChild(_, _, _, _)

MapEachChild(its, kids, k, st) ==
    IF k > Len(kids) THEN st
    ELSE IF its[kids[k]].children # <<>>
         THEN MapEachChild(its, kids, k + 1, write_hierarchy_to_bom(its, kids[k], st))
         ELSE MapEachChild(its, kids, k + 1, st)

write_hierarchy_to_bom(its, idx, st) ==
    LET s1 == WriteMaterialRow(st, its[idx].art_nr)
        s2 == MapWriteComponents(its, its[idx].art_nr, its[idx].children, 1, s1)
    IN MapEachChild(its, its[idx].children, 1, s2)

RECURSIVE MapGroups(_, _, _, _)
\* for level1_item in hierarchy_map: ... write_hierarchy_to_bom(...)
MapGroups(its, keys, k, st) ==
    IF k > Len(keys) THEN st
    ELSE MapGroups(its, keys, k + 1, write_hierarchy_to_bom(its, keys[k], st))

\* --------------------------- universal_processor: process_child_levels
RECURSIVE ChildItems(_, _, _)
\* lines 131-141
ChildItems(d, i, parent_level) ==
    IF ~InRange(d, i) THEN <<>>
    ELSE LET row_level == LevelOf(Iloc(d, i)) IN
         IF row_level = parent_level + 1
         THEN <<i>> \o ChildItems(d, i + 1, parent_level)
         ELSE IF row_level <= parent_level THEN <<>>
         ELSE ChildItems(d, i + 1, parent_level)

RECURSIVE HasGrandchildren(_, _, _)
\* lines 166-174
HasGrandchildren(d, j, child_level) ==
    IF ~InRange(d, j) THEN FALSE
    ELSE IF LevelOf(Iloc(d, j)) = child_level + 1 THEN TRUE
    ELSE IF LevelOf(Iloc(d, j)) <= child_level THEN FALSE
    ELSE HasGrandchildren(d, j + 1, child_level)

\* faulty variant of NextIndex: the scan starts from the parent itself and
\* stops there
NextIndexStuck(d, n, parent_level) == n - 1

RECURSIVE NextIndex(_, _, _)
\* lines 190-194
NextIndex(d, n, parent_level) ==
    IF ~InRange(d, n) THEN n
    ELSE IF LevelOf(Iloc(d, n)) <= parent_level THEN n
    ELSE NextIndex(d, n + 1, parent_level)

RECURSIVE ChildComponents(_, _, _, _, _)
\* lines 144-158
ChildComponents(d, parent_art, child_items, k, st) ==
    IF k > Len(child_items) THEN st
    ELSE LET child_row == Iloc(d, child_items[k]) IN
         ChildComponents(d, parent_art, child_items, k + 1,
             WriteComponentRow(st, parent_art, ArtNrOf(child_row),
                               QuantityOf(child_row), UnitOf(child_row)))

RECURSIVE process_child_levels(_, _, _, _, _)
RECURSIVE ChildMaterials(_, _, _, _, _)

\* lines 161-187
ChildMaterials(d, child_items, k, st, child_level) ==
    IF k > Len(child_items) THEN st
    ELSE LET child_index == child_items[k]
             child_art_nr == ArtNrOf(Iloc(d, child_index))
         IN IF HasGrandchildren(d, child_index + 1, child_level)
            THEN ChildMaterials(d, child_items, k + 1,
                     process_child_levels(d, child_index,
                         WriteMaterialRow(st, child_art_nr),
                         child_level, child_art_nr).st,
                     child_level)
            ELSE ChildMaterials(d, child_items, k + 1, st, child_level)

process_child_levels(d, parent_index, st, parent_level, parent_art_nr) ==
    LET child_items == ChildItems(d, parent_index + 1, parent_level)
        s1 == ChildComponents(d, parent_art_nr, child_items, 1, st)
        s2 == ChildMaterials(d, child_items, 1, s1, parent_level + 1)
    IN [st |-> s2, next_index |-> NextIndex(d, parent_index + 1, parent_level)]

RECURSIVE process_hierarchy_recursive(_, _, _, _)
\* lines 88-122; the result carries processed_groups
process_hierarchy_recursive(d, i, st, groups) ==
    IF i >= Len(d) THEN [st |-> st, processed_groups |-> groups]
    ELSE IF isna(Iloc(d, i).level)
         THEN process_hierarchy_recursive(d, i + 1, st, groups)
    ELSE IF LevelOf(Iloc(d, i)) = 1
         THEN LET art_nr1 == ArtNrOf(Iloc(d, i))
                  r == process_child_levels(d, i, WriteMaterialRow(st, art_nr1),
                                            1, art_nr1)
              IN process_hierarchy_recursive(d, r.next_index, r.st,
                                             groups + 1)
    ELSE process_hierarchy_recursive(d, i + 1, st, groups)

\* --------------------- corrected_processor: process_aptive_to_bom_correct
RECURSIVE Level3Items(_, _)
\* lines 110-115: the list level3_items
Level3Items(d, k) ==
    IF InRange(d, k) /\ LevelOf(Iloc(d, k)) >= 3
    THEN (IF LevelOf(Iloc(d, k)) = 3 THEN <<k>> ELSE <<>>) \o Level3Items(d, k + 1)
    ELSE <<>>

RECURSIVE Level3Exit(_, _)
\* lines 111-115: the value of k when the while loop ends
Level3Exit(d, k) ==
    IF InRange(d, k) /\ LevelOf(Iloc(d, k)) >= 3 THEN Level3Exit(d, k + 1) ELSE k

RECURSIVE Level3Components(_, _, _, _, _)
\* lines 118-131
Level3Components(d, art_nr2, level3_items, n, st) ==
    IF n > Len(level3_items) THEN st
    ELSE LET row3 == Iloc(d, level3_items[n]) IN
         Level3Components(d, art_nr2, level3_items, n + 1,
             WriteComponentRow(st, art_nr2, ArtNrOf(row3),
                               QuantityOf(row3), UnitOf(row3)))

RECURSIVE Level4Components(_, _, _, _)
\* lines 146-162
Level4Components(d, art_nr3, l, st) ==
    IF InRange(d, l) /\ LevelOf(Iloc(d, l)) = 4
    THEN LET row4 == Iloc(d, l) IN
         Level4Components(d, art_nr3, l + 1,
             WriteComponentRow(st, art_nr3, ArtNrOf(row4),
                               QuantityOf(row4), UnitOf(row4)))
    ELSE st

RECURSIVE Level3Materials(_, _, _, _)
\* lines 134-162
Level3Materials(d, level3_items, n, st) ==
    IF n > Len(level3_items) THEN st
    ELSE LET k == level3_items[n]
             art_nr3 == ArtNrOf(Iloc(d, k))
         IN Level3Materials(d, level3_items, n + 1,
                Level4Components(d, art_nr3, k + 1, WriteMaterialRow(st, art_nr3)))

RECURSIVE Level2Items(_, _, _, _)
\* lines 83-168; the result carries the final j.  The for loops over
\* level3_items rebind k: line 164 reads the last level-3 index, or the
\* exit value of the while loop when the list is empty.
Level2Items(d, art_nr1, j, st) ==
    IF InRange(d, j) /\ LevelOf(Iloc(d, j)) >= 2
    THEN IF LevelOf(Iloc(d, j)) = 2
         THEN LET row2 == Iloc(d, j)
                  art_nr2 == ArtNrOf(row2)
                  s1 == WriteComponentRow(st, art_nr1, art_nr2,
                                          QuantityOf(row2), UnitOf(row2))
                  s2 == WriteMaterialRow(s1, art_nr2)
                  level3_items == Level3Items(d, j + 1)
                  s3 == Level3Components(d, art_nr2, level3_items, 1, s2)
                  s4 == Level3Materials(d, level3_items, 1, s3)
                  k == IF level3_items # <<>>
                       THEN level3_items[Len(level3_items)]
                       ELSE Level3Exit(d, j + 1)
              IN Level2Items(d, art_nr1, k + 1, s4)
         ELSE [st |-> st, j |-> j]
    ELSE [st |-> st, j |-> j]

RECURSIVE CorrectedLoop(_, _, _, _)
\* lines 55-172
CorrectedLoop(d, i, st, groups) ==
    IF i >= Len(d) THEN [st |-> st, processed_groups |-> groups]
    ELSE IF isna(Iloc(d, i).level)
         THEN CorrectedLoop(d, i + 1, st, groups)
    ELSE IF LevelOf(Iloc(d, i)) = 1
         THEN LET art_nr1 == ArtNrOf(Iloc(d, i))
                  r == Level2Items(d, art_nr1, i + 1, WriteMaterialRow(st, art_nr1))
              IN CorrectedLoop(d, r.j, r.st, groups + 1)
    ELSE CorrectedLoop(d, i + 1, st, groups)


\* ------------------------------------------------------ final_processor
\* analyze_level_structure and max_level (lines 48-49, 82-95)
LevelsFound(d) ==
    {LevelOf(Iloc(d, i)) : i \in {n \in 1..(Len(d) - 1) : ~isna(Iloc(d, n).level)}}

MaxLevelOf(d) ==
    IF LevelsFound(d) = {} THEN 1
    ELSE CHOOSE m \in LevelsFound(d) : \A l \in LevelsFound(d) : l <= m

\* the dictionary appended to group_items (lines 145-151)
GroupItem(d, i) ==
    [index    |-> i,
     level    |-> LevelOf(Iloc(d, i)),
     art_nr   |-> ArtNrOf(Iloc(d, i)),
     unit     |-> UnitOf(Iloc(d, i)),
     quantity |-> QuantityOf(Iloc(d, i))]

RECURSIVE GroupEnd(_, _, _)
\* the index at which the while loop of process_level_group stops: the end of
\* the dataframe, a blank level cell, or the next level-1 record
GroupEnd(d, i, start_index) ==
    IF i < Len(d) /\ ~isna(Iloc(d, i).level)
       /\ ~(LevelOf(Iloc(d, i)) = 1 /\ i # start_index)
    THEN GroupEnd(d, i + 1, start_index)
    ELSE i

GroupItems(d, start_index) ==
    [k \in 1..(GroupEnd(d, start_index, start_index) - start_index) |->
        GroupItem(d, start_index + k - 1)]

\* levels[current_level]
LevelItems(its, current_level) ==
    SelectSeq(its, LAMBDA it : it.level = current_level)

\* [m for m, l in materials_stack if l == parent_level]
ParentMaterials(materials_stack, parent_level) ==
    LET sel == SelectSeq(materials_stack, LAMBDA e : e[2] = parent_level)
    IN [k \in DOMAIN sel |-> sel[k][1]]

RECURSIVE CurrentParentIdx(_, _, _)
\* current_parent_idx when the child of position i (from 0) is assigned
CurrentParentIdx(i, items_per_parent, num_parents) ==
    IF i = 0 THEN 0
    ELSE LET c == CurrentParentIdx(i - 1, items_per_parent, num_parents)
         IN IF i % items_per_parent = 0 /\ c < num_parents - 1 THEN c + 1 ELSE c

RECURSIVE FirstSeen(_, _)
\* the keys of parent_mapping in the order of their insertion
FirstSeen(pairs, k) ==
    IF k > Len(pairs) THEN <<>>
    ELSE (IF \E j \in 1..(k - 1) : pairs[j].parent = pairs[k].parent
          THEN <<>> ELSE <<pairs[k].parent>>) \o FirstSeen(pairs, k + 1)

RECURSIVE ByParent(_, _, _)
ByParent(pairs, keys, k) ==
    IF k > Len(keys) THEN <<>>
    ELSE SelectSeq(pairs, LAMBDA pr : pr.parent = keys[k])
         \o ByParent(pairs, keys, k + 1)

\* assign_items_to_parents, read in the order of parent_mapping.items();
\* the fallback of lines 244-246 needs an empty child_items and is never taken
assign_items_to_parents(child_items, parent_materials) ==
    IF parent_materials = <<>> THEN <<>>
    ELSE LET items_per_parent ==
                 Max(1, Len(child_items) \div Max(1, Len(parent_materials)))
             pairs == [i \in DOMAIN child_items |->
                        [parent |-> parent_materials[
                                      CurrentParentIdx(i - 1, items_per_parent,
                                                       Len(parent_materials)) + 1],
                         child  |-> child_items[i]]]
         IN ByParent(pairs, FirstSeen(pairs, 1), 1)

RECURSIVE GroupComponents(_, _, _)
\* lines 200-207
GroupComponents(pairs, k, st) ==
    IF k > Len(pairs) THEN st
    ELSE GroupComponents(pairs, k + 1,
             WriteComponentRow(st, pairs[k].parent, pairs[k].child.art_nr,
                               pairs[k].child.quantity, pairs[k].child.unit))

RECURSIVE GroupMaterials(_, _, _)
\* lines 181-187 and 215-221
GroupMaterials(level_items, k, st) ==
    IF k > Len(level_items) THEN st
    ELSE GroupMaterials(level_items, k + 1,
                        WriteMaterialRow(st, level_items[k].art_nr))

RECURSIVE GroupLevels(_, _, _, _, _)
\* the loop over current_level (lines 173-221)
GroupLevels(its, current_level, max_level, materials_stack, st) ==
    IF current_level > max_level THEN st
    ELSE LET level_items == LevelItems(its, current_level) IN
         IF level_items = <<>>
         THEN GroupLevels(its, current_level + 1, max_level, materials_stack, st)
         ELSE IF current_level = 1
         THEN GroupLevels(its, current_level + 1, max_level,
                  materials_stack \o
                    [k \in DOMAIN level_items |-> <<level_items[k].art_nr, 1>>],
                  GroupMaterials(level_items, 1, st))
         ELSE LET pairs == assign_items_to_parents(level_items,
                               ParentMaterials(materials_stack, current_level - 1))
                  s1 == GroupComponents(pairs, 1, st)
                  s2 == IF LevelItems(its, current_level + 1) # <<>>
                        THEN GroupMaterials(level_items, 1, s1)
                        ELSE s1
              IN GroupLevels(its, current_level + 1, max_level,
                     materials_stack \o
                       [k \in DOMAIN pairs |->
                          <<pairs[k].child.art_nr, current_level>>],
                     s2)

write_level_group_to_bom(its, st, max_level) ==
    GroupLevels(its, 1, max_level, <<>>, st)

RECURSIVE process_unlimited_levels(_, _, _, _)
\* lines 104-128
process_unlimited_levels(d, i, st, max_level) ==
    IF i >= Len(d) THEN st
    ELSE IF isna(Iloc(d, i).level)
         THEN process_unlimited_levels(d, i + 1, st, max_level)
    ELSE IF LevelOf(Iloc(d, i)) = 1
         THEN process_unlimited_levels(d, GroupEnd(d, i, i),
                  write_level_group_to_bom(GroupItems(d, i), st, max_level),
                  max_level)
    ELSE process_unlimited_levels(d, i + 1, st, max_level)


\* ------------------------------------------------ simple_excel_processor
RECURSIVE SortedLevels(_)
\* sorted(level_data.keys())
SortedLevels(S) ==
    IF S = {} THEN <<>>
    ELSE LET m == CHOOSE x \in S : \A y \in S : x <= y
         IN <<m>> \o SortedLevels(S \ {m})

\* level_data as the list of its entries in the order of their insertion;
\* level_data[level] is the sub-list of the entries of that level
EntriesOf(data, level) == SelectSeq(data, LAMBDA e : e.level = level)
KeysOf(data) == {data[k].level : k \in DOMAIN data}

\* level_value = str(row.iloc[0]).strip()
LevelValue(d, i) == Strip(PyStrChars(Iloc(d, i).level, IsFloatCol(d, "level")))

\* str(cell) if not pd.isna(cell) else ""
StrOrEmpty(d, i, f) ==
    IF isna(Iloc(d, i)[f]) THEN ""
    ELSE IF f = "unit" THEN Iloc(d, i)[f][1]
    ELSE Join(PyStrChars(Iloc(d, i)[f], IsFloatCol(d, f)))

SimpleEntry(d, i) ==
    [level      |-> DigitsValue(FirstDigitRun(LevelValue(d, i))),
     level_text |-> Join(LevelValue(d, i)),
     col_b      |-> StrOrEmpty(d, i, "art"),
     col_d      |-> StrOrEmpty(d, i, "unit"),
     col_e      |-> StrOrEmpty(d, i, "qty")]

RECURSIVE SimpleLevelData(_, _)
\* lines 52-82: the header row, blank level cells and level cells without a
\* digit are skipped
SimpleLevelData(d, i) ==
    IF i >= Len(d) THEN <<>>
    ELSE IF isna(Iloc(d, i).level) \/ FirstDigitRun(LevelValue(d, i)) = <<>>
         THEN SimpleLevelData(d, i + 1)
    ELSE <<SimpleEntry(d, i)>> \o SimpleLevelData(d, i + 1)

\* lines 108-121
SimpleRow(st, item) ==
    LET s1 == IF item.level = 1
              THEN WriteCell(WriteCell(st, ColMaterial, item.col_b), ColComponent, "")
              ELSE WriteCell(WriteCell(st, ColMaterial, ""), ColComponent, item.col_b)
    IN NextRow(WriteCell(WriteCell(s1, ColQuantity, item.col_d), ColUnit, item.col_e))

RECURSIVE SimpleRows(_, _, _)
SimpleRows(entries, k, st) ==
    IF k > Len(entries) THEN st
    ELSE SimpleRows(entries, k + 1, SimpleRow(st, entries[k]))

RECURSIVE SimpleLevels(_, _, _, _)
\* lines 99-124: the rows of a level, then a blank row
SimpleLevels(data, levels, k, st) ==
    IF k > Len(levels) THEN st
    ELSE SimpleLevels(data, levels, k + 1,
                      NextRow(SimpleRows(EntriesOf(data, levels[k]), 1, st)))

\* ------------------------------------------------- excel_level_processor
\* lines 120-130: the level of a cell that is not skipped
LevelOfCell(c) ==
    IF IsText(c) THEN DigitsValue(FirstDigitRun(c[2])) ELSE c[1]

\* lines 116-128: blank, empty after strip(), or a text without a digit
SkippedCell(c) ==
    \/ isna(c)
    \/ IsText(c) /\ (Strip(c[2]) = <<>> \/ FirstDigitRun(c[2]) = <<>>)

\* lines 136-142; the cells are kept as they are, '' being the blank cell
DataEntry(d, idx) ==
    [original_level |-> Iloc(d, idx).level,
     level          |-> LevelOfCell(Iloc(d, idx).level),
     col_b          |-> Iloc(d, idx).art,
     col_d          |-> Iloc(d, idx).unit,
     col_e          |-> Iloc(d, idx).qty]

RECURSIVE LevelData(_, _)
\* the loop of process_level_data over range(len(df))
LevelData(d, idx) ==
    IF idx >= Len(d) THEN <<>>
    ELSE IF SkippedCell(Iloc(d, idx).level) THEN LevelData(d, idx + 1)
    ELSE <<DataEntry(d, idx)>> \o LevelData(d, idx + 1)

\* lines 188-193
TemplateRow(st, item) ==
    NextRow(WriteCell(WriteCell(WriteCell(WriteCell(st,
        ColMaterial, item.original_level), ColComponent, item.col_b),
        ColQuantity, item.col_d), ColUnit, item.col_e))

RECURSIVE TemplateRows(_, _, _)
TemplateRows(entries, k, st) ==
    IF k > Len(entries) THEN st
    ELSE TemplateRows(entries, k + 1, TemplateRow(st, entries[k]))

RECURSIVE TemplateLevels(_, _, _, _)
\* lines 181-196: the rows of a level, then a blank row
TemplateLevels(data, levels, k, st) ==
    IF k > Len(levels) THEN st
    ELSE TemplateLevels(data, levels, k + 1,
                        NextRow(TemplateRows(EntriesOf(data, levels[k]), 1, st)))

\* ---------------------------------------------------------- gui_processor
\* lines 228-232: level_value == "" or level_value == "nan"
EmptyOrNan(chars) == chars = <<>> \/ chars = <<"n", "a", "n">>

\* lines 241-254
GuiEntry(d, index) ==
    [level      |-> DigitsValue(FirstDigitRun(LevelValue(d, index))),
     level_text |-> Join(LevelValue(d, index)),
     col_b      |-> StrOrEmpty(d, index, "art"),
     col_d      |-> StrOrEmpty(d, index, "unit"),
     col_e      |-> StrOrEmpty(d, index, "qty")]

RECURSIVE GuiLevelData(_, _)
\* lines 224-254: the loop over range(1, len(df))
GuiLevelData(d, index) ==
    IF index >= Len(d) THEN <<>>
    ELSE IF \/ isna(Iloc(d, index).level)
            \/ EmptyOrNan(LevelValue(d, index))
            \/ FirstDigitRun(LevelValue(d, index)) = <<>>
         THEN GuiLevelData(d, index + 1)
    ELSE <<GuiEntry(d, index)>> \o GuiLevelData(d, index + 1)

\* lines 274-279
GuiRow(st, item) ==
    NextRow(WriteCell(WriteCell(WriteCell(WriteCell(st,
        ColMaterial, item.level_text), ColComponent, item.col_b),
        ColQuantity, item.col_d), ColUnit, item.col_e))

RECURSIVE GuiRows(_, _, _)
GuiRows(entries, k, st) ==
    IF k > Len(entries) THEN st
    ELSE GuiRows(entries, k + 1, GuiRow(st, entries[k]))

RECURSIVE GuiLevels(_, _, _, _)
\* lines 269-282: the rows of a level, then a blank row
GuiLevels(data, levels, k, st) ==
    IF k > Len(levels) THEN st
    ELSE GuiLevels(data, levels, k + 1,
                   NextRow(GuiRows(EntriesOf(data, levels[k]), 1, st)))

\* ------------------------------------------------- configurable_processor
\* DEFAULT_CONFIG["settings"]
skip_header == TRUE
add_blank_between_levels == TRUE

\* lines 121-133: data holds the cells of source columns B, D, E
ConfigEntry(d, index) ==
    [level      |-> DigitsValue(FirstDigitRun(LevelValue(d, index))),
     level_text |-> Join(LevelValue(d, index)),
     data       |-> <<StrOrEmpty(d, index, "art"), StrOrEmpty(d, index, "unit"),
                      StrOrEmpty(d, index, "qty")>>]

RECURSIVE ConfigLevelData(_, _)
\* lines 107-138: the loop over range(start_idx, len(df))
ConfigLevelData(d, index) ==
    IF index >= Len(d) THEN <<>>
    ELSE IF \/ isna(Iloc(d, index).level)
            \/ EmptyOrNan(LevelValue(d, index))
            \/ FirstDigitRun(LevelValue(d, index)) = <<>>
         THEN ConfigLevelData(d, index + 1)
    ELSE <<ConfigEntry(d, index)>> \o ConfigLevelData(d, index + 1)

\* lines 163-172: target columns E, N, O, P
ConfigRow(st, item) ==
    NextRow(WriteCell(WriteCell(WriteCell(WriteCell(st,
        ColMaterial, item.level_text), ColComponent, item.data[1]),
        ColQuantity, item.data[2]), ColUnit, item.data[3]))

RECURSIVE ConfigRows(_, _, _)
ConfigRows(entries, k, st) ==
    IF k > Len(entries) THEN st
    ELSE ConfigRows(entries, k + 1, ConfigRow(st, entries[k]))

RECURSIVE ConfigLevelsNoBlank(_, _, _, _)
\* faulty variant of ConfigLevels: no row is left blank after a level
ConfigLevelsNoBlank(data, levels, k, st) ==
    IF k > Len(levels) THEN st
    ELSE ConfigLevelsNoBlank(data, levels, k + 1,
                             ConfigRows(EntriesOf(data, levels[k]), 1, st))

RECURSIVE ConfigLevels(_, _, _, _)
\* lines 160-176: the rows of a level, then a blank row if configured
ConfigLevels(data, levels, k, st) ==
    IF k > Len(levels) THEN st
    ELSE LET done == ConfigRows(EntriesOf(data, levels[k]), 1, st) IN
         ConfigLevels(data, levels, k + 1,
                      IF add_blank_between_levels THEN NextRow(done) ELSE done)

\* ------------------------------------------------ inputs with other cells
\* the fields of a row that are blank
BlankPatterns == {{}, {"art"}, {"qty"}, {"unit"}, {"art", "qty", "unit"}}

CellRow(i, lv, blanks) ==
    [level |-> lv,
     art   |-> IF "art" \in blanks THEN <<>> ELSE <<i>>,
     unit  |-> IF "unit" \in blanks THEN <<>> ELSE <<"pc">>,
     qty   |-> IF "qty" \in blanks THEN <<>> ELSE <<i>>]

\* blank, negative, three levels, and a text without a digit
CellLevels == {<<>>, <<0 - 1>>, <<1>>, <<2>>, <<3>>, TextCell(<<"L">>)}

CellDfs ==
    UNION {{<<HeaderRow>> \o [k \in 1..n |-> CellRow(k, f[k][1], f[k][2])] :
                f \in [1..n -> CellLevels \X BlankPatterns]} : n \in 0..MaxCellRows}

TextAlphabet == {"L", " ", "1", "2"}
Texts == UNION {[1..n -> TextAlphabet] : n \in 1..MaxTextLen}

\* one record whose level cell is a text
TextDfs == {<<HeaderRow, MkRow(1, TextCell(t))>> : t \in Texts}

\* ------------------------------------------------------------- behaviour
EmptySheet == [c \in {} |-> ""]
NoMap == [items |-> <<>>, keys |-> <<>>]

Init ==
    /\ df \in {<<>>, <<HeaderRow>>, ExampleDf}
    /\ pc = "read"
    /\ items = <<>>
    /\ hierarchy = <<>>
    /\ hierarchy_map = NoMap
    /\ processed_groups = 0
    /\ item_number = FirstItemNumber
    /\ worksheet = EmptySheet
    /\ current_row = StartRow
    /\ level_data = <<>>

\* df = pd.read_excel(aptive_file_path): the file supplies one more row
read_excel ==
    /\ pc = "read"
    /\ Len(df) >= 1
    /\ Len(df) <= MaxRows
    /\ \E c \in NextCells(df) : df' = Append(df, MkRow(Len(df), c))
    /\ UNCHANGED <<item_number, level_data, pc, items, hierarchy, hierarchy_map, processed_groups,
                   worksheet, current_row>>

\* sequential_processor: hierarchy = build_hierarchy_structure(df)
build_hierarchy_structure ==
    /\ pc = "read"
    /\ IF Raises(df)
       THEN /\ pc' = "seq_failed"
            /\ UNCHANGED <<items, hierarchy>>
       ELSE /\ LET its == LinkChildren(ExtractItems(df, 1)) IN
                 /\ items' = its
                 /\ hierarchy' = RootsFrom(its, 1)
            /\ pc' = "seq_built"
    /\ UNCHANGED <<item_number, level_data, df, hierarchy_map, processed_groups, worksheet, current_row>>

\* faulty variant of process_sequential_hierarchy: writing a node's children
\* removes them from the node
process_sequential_hierarchy_consuming ==
    /\ pc = "seq_built"
    /\ LET st == write_hierarchy_ordered(items, hierarchy, worksheet, current_row) IN
         /\ worksheet' = st.ws
         /\ current_row' = st.row
    /\ items' = [i \in DOMAIN items |-> [items[i] EXCEPT !.children = <<>>]]
    /\ pc' = "seq_done"
    /\ UNCHANGED <<item_number, level_data, df, hierarchy, hierarchy_map, processed_groups>>

\* sequential_processor:
\* current_row = write_hierarchy_ordered(hierarchy, worksheet, current_row)
process_sequential_hierarchy ==
    /\ pc = "seq_built"
    /\ LET st == write_hierarchy_ordered(items, hierarchy, worksheet, current_row) IN
         /\ worksheet' = st.ws
         /\ current_row' = st.row
    /\ pc' = "seq_done"
    /\ UNCHANGED <<item_number, level_data, df, items, hierarchy, hierarchy_map, processed_groups>>

\* optimized_processor: hierarchy_map = build_hierarchy_map(df)
build_hierarchy_map ==
    /\ pc = "read"
    /\ IF Raises(df)
       THEN /\ pc' = "opt_failed"
            /\ UNCHANGED hierarchy_map
       ELSE /\ hierarchy_map' = [items |-> MapItems(df), keys |-> Level1Keys(df, 1)]
            /\ pc' = "opt_built"
    /\ UNCHANGED <<item_number, level_data, df, items, hierarchy, processed_groups, worksheet, current_row>>

\* optimized_processor: the loop over hierarchy_map (lines 59-63)
process_aptive_to_bom_optimized ==
    /\ pc = "opt_built"
    /\ LET st == MapGroups(hierarchy_map.items, hierarchy_map.keys, 1,
                           [ws |-> worksheet, row |-> current_row]) IN
         /\ worksheet' = st.ws
         /\ current_row' = st.row
    /\ processed_groups' = Len(hierarchy_map.keys)
    /\ pc' = "opt_done"
    /\ UNCHANGED <<item_number, level_data, df, items, hierarchy, hierarchy_map>>

\* universal_processor: processed_groups = process_hierarchy_recursive(...);
\* the caller's current_row is not updated
process_aptive_to_bom_universal ==
    /\ pc = "read"
    /\ LET r == process_hierarchy_recursive(df, 1,
                    [ws |-> worksheet, row |-> current_row], 0) IN
         /\ worksheet' = r.st.ws
         /\ processed_groups' = r.processed_groups
    /\ pc' = "uni_done"
    /\ UNCHANGED <<item_number, level_data, df, items, hierarchy, hierarchy_map, current_row>>

\* corrected_processor: the while loop of process_aptive_to_bom_correct
process_aptive_to_bom_correct ==
    /\ pc = "read"
    /\ LET r == CorrectedLoop(df, 1, [ws |-> worksheet, row |-> current_row], 0) IN
         /\ worksheet' = r.st.ws
         /\ current_row' = r.st.row
         /\ processed_groups' = r.processed_groups
    /\ pc' = "cor_done"
    /\ UNCHANGED <<item_number, level_data, df, items, hierarchy, hierarchy_map>>

\* final_processor:
\* current_row = process_unlimited_levels(df, worksheet, current_row, max_level)
process_aptive_to_bom_final ==
    /\ pc = "read"
    /\ LET st == process_unlimited_levels(df, 1,
                     [ws |-> worksheet, row |-> current_row], MaxLevelOf(df)) IN
         /\ worksheet' = st.ws
         /\ current_row' = st.row
    /\ pc' = "fin_done"
    /\ UNCHANGED <<item_number, level_data, df, items, hierarchy, hierarchy_map, processed_groups>>

\* simple_excel_processor: process_aptive_to_bom, after the file is read
process_aptive_to_bom ==
    /\ pc = "read"
    /\ LET data == SimpleLevelData(df, 1)
           st == SimpleLevels(data, SortedLevels(KeysOf(data)), 1,
                              [ws |-> worksheet, row |-> LevelStartRow])
       IN /\ level_data' = data
          /\ worksheet' = st.ws
          /\ current_row' = st.row
    /\ pc' = "simple_done"
    /\ UNCHANGED <<item_number, df, items, hierarchy, hierarchy_map, processed_groups>>

\* excel_level_processor: level_data = self.process_level_data(df)
process_level_data ==
    /\ pc = "read"
    /\ level_data' = LevelData(df, 0)
    /\ pc' = "level_data"
    /\ UNCHANGED <<item_number, df, items, hierarchy, hierarchy_map, processed_groups,
                   worksheet, current_row>>

\* excel_level_processor: self.write_to_bom_template(level_data)
write_to_bom_template ==
    /\ pc = "level_data"
    /\ LET st == TemplateLevels(level_data, SortedLevels(KeysOf(level_data)), 1,
                                [ws |-> worksheet, row |-> LevelStartRow])
       IN /\ worksheet' = st.ws
          /\ current_row' = st.row
    /\ pc' = "level_done"
    /\ UNCHANGED <<item_number, df, items, hierarchy, hierarchy_map, processed_groups,
                   level_data>>

\* gui_processor: process_excel_files, after the file is read
process_excel_files ==
    /\ pc = "read"
    /\ LET data == GuiLevelData(df, 1)
           st == GuiLevels(data, SortedLevels(KeysOf(data)), 1,
                           [ws |-> worksheet, row |-> LevelStartRow])
       IN /\ level_data' = data
          /\ worksheet' = st.ws
          /\ current_row' = st.row
    /\ pc' = "gui_done"
    /\ UNCHANGED <<item_number, df, items, hierarchy, hierarchy_map, processed_groups>>

\* configurable_processor: level_data = self.extract_level_data(df)
extract_level_data ==
    /\ pc = "read"
    /\ level_data' = ConfigLevelData(df, IF skip_header THEN 1 ELSE 0)
    /\ pc' = "config_data"
    /\ UNCHANGED <<item_number, df, items, hierarchy, hierarchy_map, processed_groups,
                   worksheet, current_row>>

\* configurable_processor: self.write_to_bom(level_data, ...)
write_to_bom ==
    /\ pc = "config_data"
    /\ LET st == ConfigLevels(level_data, SortedLevels(KeysOf(level_data)), 1,
                              [ws |-> worksheet, row |-> ConfigStartRow])
       IN /\ worksheet' = st.ws
          /\ current_row' = st.row
    /\ pc' = "config_done"
    /\ UNCHANGED <<item_number, df, items, hierarchy, hierarchy_map, processed_groups,
                   level_data>>

Next ==
    \/ read_excel
    \/ build_hierarchy_structure
    \/ process_sequential_hierarchy
    \/ build_hierarchy_map
    \/ process_aptive_to_bom_optimized
    \/ process_aptive_to_bom_universal
    \/ process_aptive_to_bom_correct
    \/ process_aptive_to_bom_final

Spec == Init /\ [][Next]_vars

\* the extraction of inputs with blank attribute cells, negative levels and
\* texts in the level column
InitCells ==
    /\ df \in CellDfs \cup TextDfs
    /\ pc = "read"
    /\ items = <<>>
    /\ hierarchy = <<>>
    /\ hierarchy_map = NoMap
    /\ processed_groups = 0
    /\ item_number = FirstItemNumber
    /\ worksheet = EmptySheet
    /\ current_row = StartRow
    /\ level_data = <<>>

NextOfCells ==
    \/ build_hierarchy_structure
    \/ process_sequential_hierarchy
    \/ build_hierarchy_map
    \/ process_aptive_to_bom_optimized
    \/ process_aptive_to_bom
    \/ process_level_data
    \/ write_to_bom_template
    \/ process_excel_files
    \/ extract_level_data
    \/ write_to_bom

SpecCells == InitCells /\ [][NextOfCells]_vars

\* ------------------------------------------- one parent with many children
\* a level-2 record; a sheet may hold the same record any number of times
WideChild == NewItem(MkRow(2, <<2>>))

\* write_hierarchy_ordered at line 158, for a level-1 item whose children
\* are the WideChild records of the sheet: the Material row is written and
\* item_number is 10
InitWide ==
    /\ df = <<>>
    /\ pc = "components"
    /\ items = <<>>
    /\ hierarchy = <<>>
    /\ hierarchy_map = NoMap
    /\ processed_groups = 0
    /\ item_number = FirstItemNumber
    /\ worksheet = WriteMaterial([ws |-> EmptySheet, row |-> StartRow,
                                  item_number |-> FirstItemNumber], "1").ws
    /\ current_row = StartRow + 1
    /\ level_data = <<>>

\* one pass of the loop `for level2_item in level2_items` (lines 159-167),
\* while the sheet has a further child
write_component_row ==
    /\ pc = "components"
    /\ current_row - (StartRow + 1) < MaxChildren
    /\ LET st == WriteComponent([ws |-> worksheet, row |-> current_row,
                                 item_number |-> item_number], "1", WideChild)
       IN /\ worksheet' = st.ws
          /\ current_row' = st.row
          /\ item_number' = st.item_number
    /\ UNCHANGED <<df, pc, items, hierarchy, hierarchy_map, processed_groups,
                   level_data>>

NextWide == write_component_row

SpecWide == InitWide /\ [][NextWide]_vars

TypeOK ==
    /\ pc \in {"read", "seq_built", "seq_done", "opt_built", "opt_done",
               "uni_done", "cor_done", "fin_done", "seq_failed", "opt_failed",
               "simple_done", "level_data", "level_done", "gui_done",
               "config_data", "config_done", "components"}
    /\ current_row >= LevelStartRow
    /\ processed_groups >= 0

\* ------------------------------------------------- reading the results
NumItems == Len(items)
Kids(i) == {items[i].children[k] : k \in DOMAIN items[i].children}
ParentsOf(i) == {j \in 1..NumItems : i \in Kids(j)}

RECURSIVE Closure(_, _)
Closure(S, n) ==
    IF n = 0 THEN S ELSE Closure(S \cup UNION {Kids(i) : i \in S}, n - 1)

\* the descendants of item i
Desc(i) == Closure(Kids(i), NumItems)

Roots == {hierarchy[k] : k \in DOMAIN hierarchy}
\* the items of the forest: the roots and their descendants
Reach == Roots \cup UNION {Desc(r) : r \in Roots}

NumRows == current_row - StartRow
Material(k)  == worksheet[<<StartRow + k - 1, ColMaterial>>]
Component(k) == worksheet[<<StartRow + k - 1, ColComponent>>]
ItemNo(k)    == worksheet[<<StartRow + k - 1, ColItem>>]
IsComponentLine(k) == Component(k) # ""
IsMaterialHeader(k) == Component(k) = ""
Art(i) == items[i].art_nr
ArtsOf(S) == {Art(i) : i \in S}

SeqBuilt == pc \in {"seq_built", "seq_done"}

\* ---------------------------------------------------------------- C1
\* C1: in the rows written by sequential_processor, for every node of the
\* forest that has children, the ComponentLine rows of its direct children
\* are contiguous, in child order, and precede every row whose material is
\* one of those children or one of their descendants; at every depth.
ChildrenBlockAt(p, r) ==
    LET kids == items[p].children
        n == Len(kids)
    IN /\ r + n - 1 <= NumRows
       /\ \A k \in 1..n : /\ Material(r + k - 1) = Art(p)
                          /\ Component(r + k - 1) = Art(kids[k])
       /\ \A q \in 1..NumRows : Material(q) \in ArtsOf(Desc(p)) => q > r + n - 1

SiblingsFirst(p) ==
    items[p].children # <<>> => \E r \in 1..NumRows : ChildrenBlockAt(p, r)

C1_SiblingsBeforeGrandchildren ==
    pc = "seq_done" => \A p \in Reach : SiblingsFirst(p)

\* the item with identifier a (the identifiers of the model are distinct)
NodeByArt(a) == CHOOSE i \in 1..NumItems : Art(i) = a
Level(i) == items[i].level
OnlyDeeperBetween(a, b, L) == \A m \in (a + 1)..(b - 1) : Level(m) > L

\* ---------------------------------------------------------------- C2
\* a record b of level L >= 2 that follows an earlier record a of level L
\* with only records of level > L between them
BranchRestart(a, b) ==
    /\ a < b
    /\ Level(a) = Level(b)
    /\ Level(a) >= 2
    /\ OnlyDeeperBetween(a, b, Level(a))

NextSiblingOf(a, b) ==
    \A p \in ParentsOf(a) :
        \E k \in DOMAIN items[p].children :
            /\ items[p].children[k] = a
            /\ k + 1 \in DOMAIN items[p].children
            /\ items[p].children[k + 1] = b

\* C2: on a branch restart the new record is the next sibling of the earlier
\* record under the same parent (not a child of the earlier record, not
\* under another parent), and a later record of level L+1 is never attached
\* to the earlier record: it is attached to the new record as long as no
\* record of level <= L has been read in between.
C2_BranchRestart ==
    SeqBuilt =>
        \A a \in 1..NumItems : \A b \in 1..NumItems :
            BranchRestart(a, b) =>
                /\ ParentsOf(b) = ParentsOf(a)
                /\ a \notin ParentsOf(b)
                /\ NextSiblingOf(a, b)
                /\ \A c \in (b + 1)..NumItems :
                       Level(c) = Level(b) + 1 =>
                           /\ a \notin ParentsOf(c)
                           /\ OnlyDeeperBetween(b, c, Level(b)) => ParentsOf(c) = {b}

C2_Witness ==
    /\ SeqBuilt
    /\ \E a \in 1..NumItems : \E b \in 1..NumItems :
           /\ BranchRestart(a, b)
           /\ ParentsOf(a) # {}
           /\ Kids(a) # {}
           /\ Kids(b) # {}

\* ---------------------------------------------------------------- C3
RowTriple(k) == <<Material(k), Component(k), ItemNo(k)>>
OutTriples == [k \in 1..NumRows |-> RowTriple(k)]

ScenarioBRows ==
    << <<"1", "", "">>,
       <<"1", "2", "0010">>,
       <<"2", "", "">>,
       <<"2", "3", "0010">>,
       <<"2", "5", "0020">>,
       <<"3", "", "">>,
       <<"3", "4", "0010">>,
       <<"5", "", "">>,
       <<"5", "6", "0010">>,
       <<"5", "7", "0020">> >>

\* C3: for the records with levels 1,2,3,4,3,4,4 (the k-th record has the
\* identifier k) sequential_processor writes exactly the ten rows of
\* Scenario B, in that order.
C3_ScenarioB ==
    (pc = "seq_done" /\ df = ExampleDf) => OutTriples = ScenarioBRows

C3_Witness == pc = "seq_done" /\ df = ExampleDf /\ NumRows = 10

\* ---------------------------------------------------------------- C4
ChildPosition(p, c) == CHOOSE k \in DOMAIN items[p].children : items[p].children[k] = c

\* C4: the ComponentLine of the k-th direct child of every parent carries
\* item number 10*k in four digits ("0010" for the first child), at every
\* depth, also when a deeper subtree is written between two children.
C4_ItemNumberReset ==
    pc = "seq_done" =>
        /\ \A r \in 1..NumRows :
               IsComponentLine(r) =>
                   LET p == NodeByArt(Material(r))
                       c == NodeByArt(Component(r))
                   IN /\ c \in Kids(p)
                      /\ ItemNo(r) = Fmt04d(10 * ChildPosition(p, c))
                      /\ ChildPosition(p, c) = 1 => ItemNo(r) = "0010"
        /\ \A p \in Reach : \A c \in Kids(p) :
               \E r \in 1..NumRows : Material(r) = Art(p) /\ Component(r) = Art(c)

\* a second child whose row comes right after the rows of its elder
\* sibling's subtree
C4_Witness ==
    /\ pc = "seq_done"
    /\ \E r \in 2..NumRows :
           /\ IsComponentLine(r)
           /\ ItemNo(r) = "0020"
           /\ Material(r - 1) # Material(r)

\* ---------------------------------------------------------------- C7
\* C7: every extracted record is a root of the forest or a descendant of a
\* root (an orphan is kept as a root-level item).
C7_OrphansKept ==
    SeqBuilt => \A i \in 1..NumItems : i \in Reach

\* ---------------------------------------------------------------- C8
\* C8: in the built tree every child's level is its parent's level + 1 and
\* every descendant of a node has a level greater than the node's.
C8_LevelInvariant ==
    SeqBuilt =>
        \A p \in 1..NumItems :
            /\ \A c \in Kids(p) : Level(c) = Level(p) + 1
            /\ \A d \in Desc(p) : Level(d) > Level(p)

C8_Witness ==
    /\ SeqBuilt
    /\ \E p \in 1..NumItems : \E c \in Kids(p) : Kids(c) # {}

\* ---------------------------------------------------------------- C9
NoDuplicateChild(p) ==
    \A k1 \in DOMAIN items[p].children : \A k2 \in DOMAIN items[p].children :
        items[p].children[k1] = items[p].children[k2] => k1 = k2

\* C9: every record is in the children list of at most one node, at most
\* once, and no node is its own descendant.
C9_SingleOwnership ==
    SeqBuilt =>
        \A i \in 1..NumItems :
            /\ Cardinality(ParentsOf(i)) <= 1
            /\ NoDuplicateChild(i)
            /\ i \notin Desc(i)

\* an ill-formed input: a level jump of two and a record of level <= 0
\* that has children
C9_Witness ==
    /\ SeqBuilt
    /\ \E i \in 1..NumItems : Level(i) <= 0 /\ Kids(i) # {}
    /\ \E j \in 1..(NumItems - 1) : Level(j + 1) > Level(j) + 1

\* --------------------------------------------------------------- C10
\* the position in the forest of the root whose tree holds the material of row r
GroupOf(r) ==
    CHOOSE k \in DOMAIN hierarchy :
        NodeByArt(Material(r)) \in {hierarchy[k]} \cup Desc(hierarchy[k])

\* C10: the forest lists the level-1 records in source order, every one of
\* them has a group of rows, and the groups follow each other in that order
\* without interleaving.
C10_GroupsInRootOrder ==
    pc = "seq_done" =>
        /\ \A i \in 1..NumItems : Level(i) = 1 <=> i \in Roots
        /\ \A k \in 1..(Len(hierarchy) - 1) : hierarchy[k] < hierarchy[k + 1]
        /\ \A k \in DOMAIN hierarchy :
               \E r \in 1..NumRows : NodeByArt(Material(r)) = hierarchy[k]
        /\ \A r \in 1..NumRows :
               /\ NodeByArt(Material(r)) \in Reach
               /\ \A q \in 1..(r - 1) : GroupOf(q) <= GroupOf(r)

C10_Witness ==
    /\ pc = "seq_done"
    /\ Len(hierarchy) >= 2
    /\ \A k \in DOMAIN hierarchy : Kids(hierarchy[k]) # {}

\* ---------------------------------------------------------------- C5
\* the forest of the input by source order, whichever processor runs
Forest == LinkChildren(ExtractItems(df, 1))
ChildlessRoots ==
    {i \in 1..Len(Forest) : Forest[i].level = 1 /\ Forest[i].children = <<>>}

WrittenRows == {c[1] : c \in DOMAIN worksheet}
MaterialAt(r)  == worksheet[<<r, ColMaterial>>]
ComponentAt(r) == worksheet[<<r, ColComponent>>]
QuantityAt(r)  == worksheet[<<r, ColQuantity>>]
UnitAt(r)      == worksheet[<<r, ColUnit>>]
RowsOfMaterial(a) == {r \in WrittenRows : MaterialAt(r) = a}
HeadersOf(a) == {r \in RowsOfMaterial(a) : ComponentAt(r) = ""}

FlattenerDone == pc \in {"seq_done", "opt_done", "uni_done"}

ForestKids(i) == {Forest[i].children[k] : k \in DOMAIN Forest[i].children}

RECURSIVE ForestClosure(_, _)
ForestClosure(S, n) ==
    IF n = 0 THEN S
    ELSE ForestClosure(S \cup UNION {ForestKids(i) : i \in S}, n - 1)

\* the nodes of level >= 2 reachable from a root
ForestInner ==
    ForestClosure(UNION {ForestKids(i) : i \in {r \in 1..Len(Forest) : Forest[r].level = 1}},
                  Len(Forest))

HeaderExactlyForParents ==
    \A i \in ForestInner :
        Cardinality(HeadersOf(Forest[i].art_nr)) =
            IF Forest[i].children # <<>> THEN 1 ELSE 0

\* C6 as stated, over the outputs of sequential_processor and of
\* corrected_processor: a node of level >= 2 reachable from a root has
\* exactly one MaterialHeader row if it has a child and none otherwise.
C6_HeaderExactlyForParents ==
    pc \in {"seq_done", "cor_done"} => HeaderExactlyForParents

\* C6 amended: the statement holds of the output of sequential_processor.
C6_HeaderExactlyForParentsSequential ==
    pc = "seq_done" => HeaderExactlyForParents

\* a parent at level 4 or deeper (written by write_deeper_levels) and a childless
\* node in the same output
C6_Witness ==
    /\ pc = "seq_done"
    /\ \E i \in ForestInner : Forest[i].level >= 4 /\ Forest[i].children # <<>>
    /\ \E i \in ForestInner : Forest[i].level = 2 /\ Forest[i].children = <<>>

\* ------------------------------------------------------------------ C20
\* C20: template rows are preserved: whatever the input, no processor writes
\* a cell in a row above the start row (rows 1-8 for start row 9)
C20_TemplateRowsPreserved ==
    \A c \in DOMAIN worksheet : c[1] >= StartRow

\* the sequential processor wrote at least four rows, the
\* first of them at the start row
C20_Witness ==
    /\ pc = "seq_done"
    /\ <<StartRow, ColMaterial>> \in DOMAIN worksheet
    /\ current_row >= StartRow + 4

\* ------------------------------------------------------------------ C18
NoLevel1(d) ==
    \A i \in 1..(Len(d) - 1) : isna(Iloc(d, i).level) \/ LevelOf(Iloc(d, i)) # 1

\* C18: an input without a level-1 record (no rows, only blank rows, only
\* records of other levels) gives an empty forest, no output row, a row
\* cursor equal to the start row, and no error
C18_EmptyInputValid ==
    (pc \in {"seq_built", "seq_done", "seq_failed"} /\ NoLevel1(df)) =>
        /\ pc # "seq_failed"
        /\ hierarchy = <<>>
        /\ worksheet = EmptySheet
        /\ current_row = StartRow

\* the sequential processor finished on an input that holds records of
\* levels other than 1 and a blank row, but no level-1 record
C18_Witness ==
    /\ pc = "seq_done"
    /\ NoLevel1(df)
    /\ \E i \in 1..(Len(df) - 1) : isna(Iloc(df, i).level)
    /\ \E i \in 1..(Len(df) - 1) :
          ~isna(Iloc(df, i).level) /\ LevelOf(Iloc(df, i)) = 2

WellFormed(d) ==
    /\ Len(d) >= 2
    /\ \A i \in 1..(Len(d) - 1) : ~isna(Iloc(d, i).level)
    /\ LevelOf(Iloc(d, 1)) = 1
    /\ \A i \in 2..(Len(d) - 1) :
          /\ LevelOf(Iloc(d, i)) >= 1
          /\ LevelOf(Iloc(d, i)) <= LevelOf(Iloc(d, i - 1)) + 1

ForestDesc(a) == ForestClosure(ForestKids(a), Len(Forest))

HeaderPrecedesComponents ==
    \A r \in WrittenRows :
        ComponentAt(r) # "" =>
            /\ \E a \in 1..Len(Forest) :
                  /\ Forest[a].art_nr = MaterialAt(r)
                  /\ \E c \in ForestDesc(a) : Forest[c].art_nr = ComponentAt(r)
            /\ \E h \in HeadersOf(MaterialAt(r)) : h < r

\* C11: for every well-formed level sequence, every ComponentLine written by
\* write_hierarchy_ordered and by write_level_group_to_bom names as material
\* an ancestor of its component, and a MaterialHeader row of that node stands
\* earlier in the output
C11_HeaderPrecedesComponents ==
    (pc \in {"seq_done", "fin_done"} /\ WellFormed(df)) => HeaderPrecedesComponents

\* ------------------------------------------------------------------ C13
\* the dataframe without its blank-level rows (row 0 is never examined)
RemoveBlank(d) ==
    IF d = <<>> THEN d
    ELSE <<d[1]>> \o SelectSeq(Tail(d), LAMBDA row : ~isna(row.level))

RowsOfSequential(d) ==
    LET its == LinkChildren(ExtractItems(d, 1))
    IN write_hierarchy_ordered(its, RootsFrom(its, 1), EmptySheet, StartRow).ws

RowsOfUniversal(d) ==
    process_hierarchy_recursive(d, 1, [ws |-> EmptySheet, row |-> StartRow], 0).st.ws

RowsOfFinal(d) ==
    process_unlimited_levels(d, 1, [ws |-> EmptySheet, row |-> StartRow],
                             MaxLevelOf(d)).ws

\* C13: blank-level rows are skipped and have no other effect: the rows
\* written by sequential_processor, universal_processor and final_processor
\* are the rows they write for the same input without its blank-level rows
C13_BlankRowsNoEffect ==
    /\ pc = "seq_done" => worksheet = RowsOfSequential(RemoveBlank(df))
    /\ pc = "uni_done" => worksheet = RowsOfUniversal(RemoveBlank(df))
    /\ pc = "fin_done" => worksheet = RowsOfFinal(RemoveBlank(df))

\* ------------------------------------------------------------------ C12
\* the item number shown in row r; a cell that was not written is empty
ItemAt(r) ==
    IF <<r, ColItem>> \in DOMAIN worksheet THEN worksheet[<<r, ColItem>>] ELSE ""

\* a MaterialHeader row: a node's identifier, everything else empty
HeaderContents(r) ==
    /\ \E i \in 1..Len(Forest) : Forest[i].art_nr = MaterialAt(r)
    /\ QuantityAt(r) = <<>>
    /\ UnitAt(r) = ""
    /\ ItemAt(r) = ""

\* a ComponentLine row: the parent's identifier and the child's own
\* identifier, quantity and unit
ComponentContents(r) ==
    \E p \in 1..Len(Forest) : \E c \in ForestKids(p) :
        /\ MaterialAt(r) = Forest[p].art_nr
        /\ ComponentAt(r) = Forest[c].art_nr
        /\ QuantityAt(r) = Forest[c].quantity
        /\ UnitAt(r) = Forest[c].unit

RowContents ==
    \A r \in WrittenRows :
        IF ComponentAt(r) = "" THEN HeaderContents(r) ELSE ComponentContents(r)

NoDigits(c) == IsText(c) /\ \A k \in DOMAIN c[2] : ~IsDigit(c[2][k])
Malformed(d) == \E i \in 1..(Len(d) - 1) : NoDigits(Iloc(d, i).level)

\* the rows from index first on whose level cell is neither blank nor malformed
RecordRows(d, first) ==
    {i \in first..(Len(d) - 1) :
        ~isna(Iloc(d, i).level) /\ ~NoDigits(Iloc(d, i).level)}

MalformedSkipped ==
    /\ pc # "seq_failed"
    /\ pc \in {"seq_built", "seq_done"} =>
          Len(items) = Cardinality(RecordRows(df, 1))
    /\ pc = "simple_done" => Len(level_data) = Cardinality(RecordRows(df, 1))
    /\ pc \in {"level_data", "level_done"} =>
          Len(level_data) = Cardinality(RecordRows(df, 0))

\* C14: a row whose level cell is not blank but holds no decimal digit is
\* skipped and every other row is still extracted, in sequential_processor,
\* simple_excel_processor and excel_level_processor; the extraction does not
\* end in an error because of such a row
C14_MalformedLevelNeverRaises ==
    Malformed(df) => MalformedSkipped

\* ------------------------------------------------------------------ C15
HasNegativeLevel(d) ==
    \E i \in 1..(Len(d) - 1) :
        /\ ~isna(Iloc(d, i).level)
        /\ ~IsText(Iloc(d, i).level)
        /\ Iloc(d, i).level[1] < 0

\* C15: a record with a negative level makes the processing fail: neither
\* sequential_processor nor simple_excel_processor gets to the end of its
\* extraction or writes rows for such an input
C15_NegativeLevelFatal ==
    HasNegativeLevel(df) =>
        /\ pc \notin {"seq_built", "seq_done", "simple_done"}
        /\ worksheet = EmptySheet

\* ------------------------------------------------------------------ C16
\* v is the value of the first maximal run of decimal digits of the text t
FirstRunValue(t, v) ==
    \E a \in DOMAIN t : \E b \in a..Len(t) :
        /\ \A k \in 1..(a - 1) : ~IsDigit(t[k])
        /\ \A k \in a..b : IsDigit(t[k])
        /\ b = Len(t) \/ ~IsDigit(t[b + 1])
        /\ v = DigitsValue(SubSeq(t, a, b))

\* the level of a level cell as the statement gives it; a negative integer is
\* not a level value and is left to C15
ParsedAs(c, v) ==
    IF IsText(c) THEN FirstRunValue(c[2], v) ELSE (c[1] >= 0 => v = c[1])

RECURSIVE RowsFrom(_, _)
\* the indexes of the rows from index i on that hold a record
RowsFrom(d, i) ==
    IF i >= Len(d) THEN <<>>
    ELSE (IF i \in RecordRows(d, i) THEN <<i>> ELSE <<>>) \o RowsFrom(d, i + 1)

LevelsParsed(first) ==
    /\ Len(level_data) = Len(RowsFrom(df, first))
    /\ \A k \in DOMAIN level_data :
          ParsedAs(Iloc(df, RowsFrom(df, first)[k]).level, level_data[k].level)

Filled(d) ==
    [i \in DOMAIN d |->
        [level |-> d[i].level,
         art   |-> IF isna(d[i].art) THEN <<i - 1>> ELSE d[i].art,
         unit  |-> IF isna(d[i].unit) THEN <<"pc">> ELSE d[i].unit,
         qty   |-> IF isna(d[i].qty) THEN <<i - 1>> ELSE d[i].qty]]

\* the item made of the row of index i has "" in the place of each blank cell
BlankFieldsEmpty(item, i) ==
    /\ isna(Iloc(df, i).art) => item.art_nr = ""
    /\ isna(Iloc(df, i).unit) => item.unit = ""
    /\ isna(Iloc(df, i).qty) => item.quantity = <<>>
    /\ item.level = LevelOf(Iloc(df, i))

\* C17: a record with a blank identifier, quantity or unit cell is extracted
\* by build_hierarchy_structure and by build_hierarchy_map, with the empty
\* string in the blank field, and stands in the tree where it stands when the
\* cells are filled; it is not an error and the record is not skipped
C17_MissingAttributesEmpty ==
    /\ ~Raises(df) => pc \notin {"seq_failed", "opt_failed"}
    /\ pc \in {"seq_built", "seq_done"} =>
          LET rows == KeysFrom(df, 1)
              filled == LinkChildren(ExtractItems(Filled(df), 1))
          IN /\ Len(items) = Len(rows)
             /\ \A k \in DOMAIN items :
                   /\ BlankFieldsEmpty(items[k], rows[k])
                   /\ items[k].children = filled[k].children
             /\ hierarchy = RootsFrom(filled, 1)
    /\ pc \in {"opt_built", "opt_done"} =>
          /\ DOMAIN hierarchy_map.items = ItemKeys(df)
          /\ \A i \in DOMAIN hierarchy_map.items :
                /\ BlankFieldsEmpty(hierarchy_map.items[i], i)
                /\ hierarchy_map.items[i].children =
                       MapItems(Filled(df))[i].children
          /\ hierarchy_map.keys = Level1Keys(Filled(df), 1)

\* build_hierarchy_structure has made a level-2 record without identifier,
\* unit and quantity the child of the level-1 record before it
C17_Witness ==
    /\ pc = "seq_built"
    /\ Len(df) = 3
    /\ isna(Iloc(df, 2).art) /\ isna(Iloc(df, 2).unit) /\ isna(Iloc(df, 2).qty)
    /\ Len(items) = 2
    /\ items[1].children = <<2>>
    /\ items[2].art_nr = ""

\* ------------------------------------------------------------------ C28
\* the rows write_hierarchy_ordered has to write: a Material row for every
\* root and for every other node of the forest that has children, a
\* Component row for every node of the forest that is not a root
RowsDue ==
    Cardinality(Roots) + Cardinality(Reach \ Roots)
        + Cardinality({i \in Reach \ Roots : items[i].children # <<>>})

\* C28: write_hierarchy_ordered and write_deeper_levels write consecutive row
\* positions from the start row on, without gap or separator row, every
\* position once, and return the start row plus the number of rows written
C28_RowCursor ==
    pc = "seq_done" =>
        /\ WrittenRows = StartRow..(current_row - 1)
        /\ current_row = StartRow + RowsDue

\* the rows of a forest with two roots and a node of level 5, which
\* write_deeper_levels writes
C28_Witness ==
    /\ pc = "seq_done"
    /\ Cardinality(Roots) >= 2
    /\ \E i \in Reach : items[i].level = 5
    /\ current_row >= StartRow + 6

\* ------------------------------------------------------------------ C26
\* the index of the row whose identifier is a
RowOfArt(a) ==
    CHOOSE i \in 1..(Len(df) - 1) :
        ~isna(Iloc(df, i).level) /\ ArtNrOf(Iloc(df, i)) = a

\* the record of index c is attached to the record of index p although a
\* record read between them has closed p
AttachedToClosed(d, p, c) ==
    \/ c <= p
    \/ \E r \in (p + 1)..(c - 1) :
          ~isna(Iloc(d, r).level) /\ LevelOf(Iloc(d, r)) <= LevelOf(Iloc(d, p))

\* C26: for every input, once a record of level L has been read, no later
\* record is attached as a child of an earlier node of level >= L, neither
\* in the forest of build_hierarchy_structure nor in the Component rows of
\* process_child_levels
C26_ClosedAncestorsStayClosed ==
    /\ SeqBuilt =>
          LET rows == KeysFrom(df, 1) IN
          \A p \in DOMAIN items : \A c \in Kids(p) :
              ~AttachedToClosed(df, rows[p], rows[c])
    /\ pc = "uni_done" =>
          \A r \in WrittenRows :
              ComponentAt(r) # "" =>
                  ~AttachedToClosed(df, RowOfArt(MaterialAt(r)),
                                    RowOfArt(ComponentAt(r)))

\* after a level-3 record and a level-2 record closing it, a record of level
\* 4 has been read, in an input that build_hierarchy_structure has processed
C26_Witness ==
    /\ pc = "seq_built"
    /\ \E a \in DOMAIN items : \E b \in DOMAIN items : \E c \in DOMAIN items :
          /\ a < b /\ b < c
          /\ items[a].level = 3 /\ items[b].level = 2 /\ items[c].level = 4
          /\ Kids(a) = {}
    /\ \E p \in DOMAIN items : Cardinality(Kids(p)) >= 2

\* ------------------------------------------------------------------ C25
\* C25: for every well-formed level sequence, the forest of
\* build_hierarchy_structure and the map of build_hierarchy_map have the
\* parents, the child order and the root order of the single-pass
\* ancestor-stack algorithm: a record of level 1 becomes a root and the whole
\* stack, a record of level L > 1 becomes the last child of stack[L-1] and
\* the stack is cut above L
C25_ScanRefinesStack ==
    WellFormed(df) =>
        LET n == Len(df) - 1
            lv == [k \in 1..n |-> LevelOf(Iloc(df, k))]
            RECURSIVE StackAfter(_)
            StackAfter(k) ==
                IF k = 0 THEN <<>>
                ELSE SubSeq(StackAfter(k - 1), 1, lv[k] - 1) \o <<k>>
            StackParent(k) ==
                IF lv[k] = 1 THEN 0 ELSE StackAfter(k - 1)[lv[k] - 1]
            RECURSIVE Asc(_, _)
            Asc(S, k) ==
                IF k > n THEN <<>>
                ELSE (IF k \in S THEN <<k>> ELSE <<>>) \o Asc(S, k + 1)
            StackChildren(p) == Asc({k \in 1..n : StackParent(k) = p}, 1)
        IN /\ SeqBuilt =>
                /\ hierarchy = StackChildren(0)
                /\ \A p \in 1..n : items[p].children = StackChildren(p)
           /\ pc \in {"opt_built", "opt_done"} =>
                /\ hierarchy_map.keys = StackChildren(0)
                /\ \A p \in 1..n :
                      hierarchy_map.items[p].children = StackChildren(p)

\* a well-formed sequence with two roots, a level repeated under the same
\* parent and a return from level 3 to level 2, built by the scanning builder
C25_Witness ==
    /\ pc = "seq_built"
    /\ WellFormed(df)
    /\ Len(hierarchy) >= 2
    /\ \E p \in DOMAIN items : Len(items[p].children) >= 2
    /\ \E a \in DOMAIN items : \E b \in DOMAIN items :
          a < b /\ items[a].level = 3 /\ items[b].level = 2

\* ------------------------------------------------------------------ C27
\* the Component rows that carry the record of index c
ComponentRowsOf(c) ==
    {r \in WrittenRows : ComponentAt(r) = ArtNrOf(Iloc(df, c))}

\* the parent of the record of index c by source order: the nearest
\* preceding record of the level above
SourceParent(d, c) ==
    CHOOSE p \in 1..(c - 1) :
        /\ LevelOf(Iloc(d, p)) = LevelOf(Iloc(d, c)) - 1
        /\ \A q \in (p + 1)..(c - 1) :
              LevelOf(Iloc(d, q)) # LevelOf(Iloc(d, c)) - 1

EachRecordOnce ==
    LET deep == {c \in 1..(Len(df) - 1) : LevelOf(Iloc(df, c)) >= 2} IN
    /\ \A c \in deep :
          /\ Cardinality(ComponentRowsOf(c)) = 1
          /\ \A r \in ComponentRowsOf(c) :
                MaterialAt(r) = ArtNrOf(Iloc(df, SourceParent(df, c)))
    /\ Cardinality({r \in WrittenRows : ComponentAt(r) # ""}) = Cardinality(deep)

\* C27: for every well-formed level sequence, each record of level >= 2 is
\* the component of exactly one ComponentLine, under its parent, and there
\* are as many ComponentLines as records of level >= 2, in the rows of
\* sequential_processor and of corrected_processor
C27_EachRecordOnce ==
    (WellFormed(df) /\ pc \in {"seq_done", "cor_done"}) => EachRecordOnce

\* ------------------------------------------------------------------ C24
\* the records of level lv of the group of the level-1 record of index i:
\* those up to the next level-1 record
GroupRecords(d, i, lv) ==
    {c \in (i + 1)..(Len(d) - 1) :
        /\ ~isna(Iloc(d, c).level)
        /\ LevelOf(Iloc(d, c)) = lv
        /\ \A q \in (i + 1)..(c - 1) :
              isna(Iloc(d, q).level) \/ LevelOf(Iloc(d, q)) # 1}

\* C24: in the rows of corrected_processor, every level-2 record between a
\* level-1 record and the next level-1 record is the component of exactly
\* one Component row, and that row names the level-1 record as material
\* (stated for the well-formed level sequences)
C24_NoLevel2Lost ==
    (pc = "cor_done" /\ WellFormed(df)) =>
        \A i \in 1..(Len(df) - 1) :
            (~isna(Iloc(df, i).level) /\ LevelOf(Iloc(df, i)) = 1) =>
                \A c \in GroupRecords(df, i, 2) :
                    /\ Cardinality(ComponentRowsOf(c)) = 1
                    /\ \A r \in ComponentRowsOf(c) :
                          MaterialAt(r) = ArtNrOf(Iloc(df, i))

\* ------------------------------------------------------------------ C23
\* C23: in the rows of final_processor, for every well-formed level
\* sequence, every record of level L >= 2 is written as a component, and
\* only under the nearest preceding record of level L-1, however the
\* children are distributed among the parents
C23_AncestryBySourceOrder ==
    (pc = "fin_done" /\ WellFormed(df)) =>
        \A c \in 1..(Len(df) - 1) :
            LevelOf(Iloc(df, c)) >= 2 =>
                /\ ComponentRowsOf(c) # {}
                /\ \A r \in ComponentRowsOf(c) :
                      MaterialAt(r) = ArtNrOf(Iloc(df, SourceParent(df, c)))

\* ------------------------------------------------------------------ C22
\* some written row carries the identifier of input row 0, in the form the
\* processor that ran gives to an identifier
RowZeroWritten ==
    LET id == CASE pc \in {"seq_done", "opt_done"} -> ArtNrOf(Iloc(df, 0))
                [] pc = "simple_done" -> StrOrEmpty(df, 0, "art")
                [] pc = "level_done" -> Iloc(df, 0).art
    IN \E r \in WrittenRows : MaterialAt(r) = id \/ ComponentAt(r) = id

\* C22: input row 0 never becomes a record: no row written by
\* sequential_processor, optimized_processor, simple_excel_processor or
\* excel_level_processor is derived from it, even when its level cell holds
\* a valid level
C22_HeaderRowSkipped ==
    (pc \in {"seq_done", "opt_done", "simple_done", "level_done"} /\ Len(df) >= 1)
        => ~RowZeroWritten

\* ------------------------------------------------------------------ C30
\* the row at which a level-grouped writer that starts at row first puts
\* entry k of level_data: after the entries of lower levels, the earlier
\* entries of the same level, and one blank row per lower level
GroupedRow(first, k) ==
    first
      + Cardinality({j \in DOMAIN level_data : level_data[j].level < level_data[k].level})
      + Cardinality({j \in 1..(k - 1) : level_data[j].level = level_data[k].level})
      + Cardinality({l \in KeysOf(level_data) : l < level_data[k].level})

\* the identifier of entry k is in the row r, in the cell the processor uses
CarriesEntry(r, k) ==
    CASE pc = "simple_done" ->
            /\ QuantityAt(r) = level_data[k].col_d
            /\ IF level_data[k].level = 1
               THEN MaterialAt(r) = level_data[k].col_b /\ ComponentAt(r) = ""
               ELSE ComponentAt(r) = level_data[k].col_b /\ MaterialAt(r) = ""
      [] pc = "gui_done" ->
            /\ MaterialAt(r) = level_data[k].level_text
            /\ ComponentAt(r) = level_data[k].col_b
      [] pc = "config_done" ->
            /\ MaterialAt(r) = level_data[k].level_text
            /\ ComponentAt(r) = level_data[k].data[1]

\* C30: in simple_excel_processor, gui_processor and configurable_processor
\* (add_blank_between_levels set), the rows are grouped by ascending level,
\* entries of one level keep their source order, one blank row follows each
\* level group, every extracted record is written exactly once, and the
\* final cursor is the start row plus the number of records plus the number
\* of distinct levels
C30_LevelGrouped ==
    pc \in {"simple_done", "gui_done", "config_done"} =>
        LET first == IF pc = "config_done" THEN ConfigStartRow ELSE LevelStartRow IN
        /\ WrittenRows = {GroupedRow(first, k) : k \in DOMAIN level_data}
        /\ \A k \in DOMAIN level_data : CarriesEntry(GroupedRow(first, k), k)
        /\ \A j \in DOMAIN level_data : \A k \in DOMAIN level_data :
              j # k => GroupedRow(first, j) # GroupedRow(first, k)
        /\ current_row = first + Len(level_data) + Cardinality(KeysOf(level_data))

\* configurable_processor has written two records whose levels descend in
\* the source, so that the second record is written first
C30_Witness ==
    /\ pc = "config_done"
    /\ Len(level_data) = 2
    /\ level_data[1].level > level_data[2].level
    /\ MaterialAt(ConfigStartRow) = level_data[2].level_text
    /\ current_row = ConfigStartRow + 4

\* ------------------------------------------------------------------ C21
\* C21: every item number written by write_hierarchy_ordered for a
\* ComponentLine is a string of exactly four characters (the zero-padded
\* decimal digits of the counter), whatever the number of children of the
\* parent; stated of the Component row written last, which every Component
\* row is in the state after its loop pass
C21_FourDigitItemNumbers ==
    (pc = "components" /\ current_row > StartRow + 1) =>
        /\ ComponentAt(current_row - 1) # ""
        /\ Len(ItemAt(current_row - 1)) = ItemWidth

\* ------------------------------------------------------------------ C29
\* the positions of the sheet that are no blank row
Records(d) == {i \in 1..(Len(d) - 1) : ~isna(Iloc(d, i).level)}

\* corrected_processor: from a level-1 record at i the outer loop continues
\* at a larger index; a pass of the loop over j that starts at a level-2
\* record ends at a larger j; the scan over k ends at or after its start
CorrectedAdvances(d) ==
    LET st == [ws |-> EmptySheet, row |-> StartRow] IN
    \A i \in Records(d) :
        /\ LevelOf(Iloc(d, i)) = 1 =>
              Level2Items(d, ArtNrOf(Iloc(d, i)), i + 1, st).j > i
        /\ LevelOf(Iloc(d, i)) = 2 =>
              Level2Items(d, "", i, st).j > i
        /\ Level3Exit(d, i + 1) > i

\* universal_processor: from a level-1 record at i the outer loop continues
\* at a larger index, and a call of process_child_levels for a
\* parent at i of level lv only recurses into later records of level lv + 1
UniversalAdvances(d) ==
    LET st == [ws |-> EmptySheet, row |-> StartRow] IN
    \A i \in Records(d) :
        /\ LevelOf(Iloc(d, i)) = 1 =>
              process_child_levels(d, i, st, 1, ArtNrOf(Iloc(d, i))).next_index > i
        /\ LET child_items == ChildItems(d, i + 1, LevelOf(Iloc(d, i))) IN
           \A k \in DOMAIN child_items :
              /\ child_items[k] \in (i + 1)..(Len(d) - 1)
              /\ LevelOf(Iloc(d, child_items[k])) = LevelOf(Iloc(d, i)) + 1

\* write_deeper_levels: a call for an item only recurses into later items of
\* a strictly deeper level
ForestDescends ==
    \A p \in DOMAIN items : \A c \in Kids(p) :
        c \in (p + 1)..Len(items) /\ items[c].level > items[p].level

\* C29: every processor terminates on every finite input: each outer pass
\* of corrected_processor and of universal_processor continues at a strictly
\* larger index, while the loops run only below the length of the sheet, and the
\* recursions of process_child_levels and write_deeper_levels descend to a
\* strictly deeper level among later records
C29_Termination ==
    /\ pc \in {"read", "cor_done"} => CorrectedAdvances(df)
    /\ pc \in {"read", "uni_done"} => UniversalAdvances(df)
    /\ SeqBuilt => ForestDescends

\* universal_processor has finished two groups, one of them three levels
\* deep, on a sheet with a blank row
C29_Witness ==
    /\ pc = "uni_done"
    /\ processed_groups = 2
    /\ \E i \in Records(df) : LevelOf(Iloc(df, i)) = 3
    /\ \E i \in 1..(Len(df) - 1) : isna(Iloc(df, i).level)
    /\ \E r \in WrittenRows : ComponentAt(r) # ""

====
